---- MODULE Spec2Model ----
(***************************************************************************)
(* A model of the orchestration core of the agents package:                *)
(*   - DomainAgent (src/agents/domain_agent.py): the status state machine  *)
(*     and the capacity gate of execute_task;                              *)
(*   - AgentOrchestrator (src/agents/agent_orchestrator.py): initialize    *)
(*     and execute_workflow.                                               *)
(*                                                                         *)
(* The program is a single asyncio event loop: the code between two        *)
(* awaits that really suspend runs atomically, so each action below is one *)
(* such stretch of a coroutine.                                            *)
(*                                                                         *)
(* MetricsClient (domain_agent.py:40, data_hub.py:40) is a collaborator    *)
(* that is not defined in the package; its construction is modelled as a   *)
(* call that either succeeds or raises.                                    *)
(***************************************************************************)
EXTENDS Integers, Sequences, FiniteSets, TLC

\* ------------------------------------------------------------------ bounds
\* Number of concurrent callers of DomainAgent.execute_task.
MaxCalls == 2
\* AgentConfig.max_concurrent_tasks ranges over 1..MaxCapacity.
MaxCapacity == 2
\* Number of distinct task ids the callers use.
MaxTaskIds == 2

\* Number of concurrent callers of AgentOrchestrator.execute_workflow.
MaxWorkflows == 2
\* Plans passed to one execute_parallel call.
MaxPlans == 2
\* RateLimiter: the callers, the longest interval (in ticks), the ticks the
\* clock advances, and the calls let through in one run.
MaxRlCallers == 2
MaxInterval == 2
MaxTicks == 5
MaxPermits == 3
\* ErrorHandler: the ticks its clock advances and the handle_error calls
\* between two clear_error_history calls.
MaxEhTicks == 3
MaxErrors == 3
\* AgentConfig.timeout_seconds, in ticks of the callers' clock.
TimeoutTicks == 2

Calls == 1..MaxCalls
\* Clock ticks in one second: error ids are formatted to the second
\* ('%Y%m%d_%H%M%S', error_handler.py:39).
TicksPerSecond == 2
NoReport == [snapshot |-> [status |-> "none", current_tasks |-> <<>>],
             call |-> "none"]
NoHandled == [outcome |-> "none", id |-> 0, logFailed |-> FALSE]
RlCallers == 1..MaxRlCallers
NoRlCall == [arg |-> "none", op |-> "none", got |-> "none"]
\* time.time() when the limiter is built: the epoch is far more than one
\* interval back, so the first call never sleeps.
StartTime == MaxInterval
MaxTime == StartTime + MaxTicks
Workflows == 1..MaxWorkflows
TaskIds == 1..MaxTaskIds
\* A task dict without the key "task_id".
NoTaskId == 0

\* AgentStatus (domain_agent.py:7-12)
INITIALIZING == "initializing"
READY == "ready"
BUSY == "busy"
ERROR == "error"
SHUTDOWN == "shutdown"
AgentStatus == {INITIALIZING, READY, BUSY, ERROR, SHUTDOWN}

\* The exceptions execute_task raises itself, by message.
NotReadyError == "RuntimeError: is not ready"
CapacityError == "RuntimeError: is at maximum capacity"
TaskIdKeyError == "KeyError: task_id"
\* Exceptions a task body (_execute_task_impl) may raise.
BodyErrors == {"ValueError", "RuntimeError"}
\* Exceptions the construction of the metrics client may raise.
InitErrors == {"NameError", "ConnectionError"}
\* Exceptions research_topic may raise.
StepErrors == {"ValueError", "APIError"}
\* What an agent's teardown may raise.
TeardownErrors == {"RuntimeError"}
NoError == "none"

\* OrchestratorMode (agent_orchestrator.py:23-26)
OrchestratorMode == {"sequential", "parallel", "adaptive"}
\* OrchestratorConfig.max_concurrent_tasks default (agent_orchestrator.py:33)
DefaultOrchMaxConcurrentTasks == 3
\* AgentConfig.max_concurrent_tasks default (domain_agent.py:25)
DefaultMaxConcurrentTasks == 3

VARIABLES
    \* ---- one DomainAgent
    status,                 \* self.status
    current_tasks,          \* self.current_tasks, a list of task ids
    metrics_client,         \* self.metrics_client is not None
    max_concurrent_tasks,   \* self.config.max_concurrent_tasks
    \* ---- the callers of execute_task, one coroutine per slot
    callPc,                 \* "idle" | "running" | "returned" | "raised"
    callTask,               \* the task["task_id"] the call read at line 58, or NoTaskId
    callExc,                \* the exception that reached the caller
    implRan,                \* _execute_task_impl was invoked for the call
    implExc,                \* the exception the task body raised
    \* ---- how the last initialize() or shutdown() call on the agent ended
    lastOp,                 \* [op, outcome, exc, trigger]
    \* ---- one AgentOrchestrator; its analytics agent is the DomainAgent above
    data_hub,               \* self.data_hub is not None
    agents,                 \* the keys of self.agents, in insertion order
    execution_history,      \* self.execution_history, by workflow call
    context_store,          \* the keys of self.context_store
    lastOrchInit,           \* how the last initialize() ended: [outcome, exc, failed]
    \* ---- the callers of execute_workflow, one coroutine per slot
    wfPc,                   \* "idle" | the step awaited | "done" | "raised"
    wfError,                \* the "error" entry of the returned map
    wfLog,                  \* the step events of the call, in order: <<step, kind>>
    \* ---- the configuration the orchestrator was built with
    mode,                   \* config.mode
    orch_max_concurrent_tasks,  \* config.max_concurrent_tasks of the orchestrator
    \* ---- AgentOrchestrator.cleanup
    lastCleanup,            \* how the last cleanup() ended, and the agents it tore down
    \* ---- one execute_parallel call
    parPc,                  \* "idle" | "gathering" | "returned" | "raised"
    parPlans,               \* the plans passed in: their agent_type, in order
    parTasks,               \* tasks: for each coroutine created, the index of its plan
    parResults,             \* execution_results: entry i+1 is the value of "task_i"
    \* ---- one RateLimiter and its callers
    rlNow,                  \* time.time(), in ticks
    interval,               \* self.interval, in ticks
    last_call_time,         \* self.last_call_time
    rlLocked,               \* self.lock is held
    rlWaiters,              \* the callers waiting for self.lock, first come first
    rlPc,                   \* per caller: "idle" | "waiting" | "sleeping" | "calling"
    rlWakeAt,               \* per sleeping caller: the time its sleep is over
    permitted,              \* the calls let through so far: [at, slept], in order
    rlLast,                 \* the last finished call: what was passed, what the
                            \* wrapped operation yields, what the caller got
    \* ---- one ErrorHandler
    ehNow,                  \* datetime.now(), in ticks
    error_log,              \* self.error_log: error id -> ErrorContext
    ehCalls,                \* handle_error calls since the log was last empty
    ehLast,                 \* how the last handle_error call ended
    \* ---- DomainAgent.report_status
    lastReport,             \* what the monitor's last report_status call
                            \* returned, and whether it was a repeated call
    \* ---- the time callers have waited
    callAge                 \* per call: ticks since its task was accepted

agentVars == <<status, current_tasks, metrics_client, max_concurrent_tasks>>
callVars == <<callPc, callTask, callExc, implRan, implExc>>
opVars == <<lastOp>>
orchVars == <<data_hub, agents, execution_history, context_store, lastOrchInit>>
wfVars == <<wfPc, wfError, wfLog>>
cfgVars == <<mode, orch_max_concurrent_tasks>>
\* What the DomainAgent and the workflow actions never touch.
cleanupVars == <<lastCleanup>>
parVars == <<parPc, parPlans, parTasks, parResults>>
rlVars == <<rlNow, interval, last_call_time, rlLocked, rlWaiters, rlPc,
            rlWakeAt, permitted, rlLast>>
ehVars == <<ehNow, error_log, ehCalls, ehLast>>
reportVars == <<lastReport>>
timerVars == <<callAge>>
auxVars == <<cfgVars, cleanupVars, parVars, rlVars, ehVars, reportVars,
             timerVars>>
vars == <<agentVars, callVars, opVars, orchVars, wfVars, auxVars>>

NoOrchInit == [outcome |-> "none", exc |-> NoError, failed |-> "none"]
NoOp == [op |-> "none", outcome |-> "none", exc |-> NoError, trigger |-> NoError]

\* ------------------------------------------------------------- DomainAgent

\* list.remove(x): drops the first occurrence of x.
RECURSIVE RemoveFirst(_, _)
RemoveFirst(s, x) ==
    IF s = <<>> THEN <<>>
    ELSE IF Head(s) = x THEN Tail(s)
    ELSE <<Head(s)>> \o RemoveFirst(Tail(s), x)

\* Mutant: the capacity guard compares with > instead of >=.
ExecuteTaskGate_OffByOne(st, tasks, max) ==
    IF st # READY THEN NotReadyError
    ELSE IF Len(tasks) > max THEN CapacityError
    ELSE "accept"

\* Mutant: the status guard only turns away an agent that was shut down.
ExecuteTaskGate_ShutdownOnly(st, tasks, max) ==
    IF st = SHUTDOWN THEN NotReadyError
    ELSE IF Len(tasks) >= max THEN CapacityError
    ELSE "accept"

\* The two guards at the head of execute_task (domain_agent.py:50-54).
ExecuteTaskGate(st, tasks, max) ==
    IF st # READY THEN NotReadyError
    ELSE IF Len(tasks) >= max THEN CapacityError
    ELSE "accept"

\* DomainAgent.__init__ (domain_agent.py:29-35)
AgentInit ==
    /\ status = INITIALIZING
    /\ current_tasks = <<>>
    /\ metrics_client = FALSE
    /\ max_concurrent_tasks \in 1..MaxCapacity

\* Mutant: the except clause of initialize() logs and does not re-raise.
InitializeOutcome_Swallow(trigger) ==
    IF trigger = NoError
    THEN [status |-> READY, metrics |-> TRUE,
          result |-> [op |-> "initialize", outcome |-> "returned",
                      exc |-> NoError, trigger |-> trigger]]
    ELSE [status |-> ERROR, metrics |-> metrics_client,
          result |-> [op |-> "initialize", outcome |-> "returned",
                      exc |-> NoError, trigger |-> trigger]]

\* The state initialize() leaves, by what MetricsClient() did
\* (domain_agent.py:37-46): trigger = NoError when it succeeded.
InitializeOutcome(trigger) ==
    IF trigger = NoError
    THEN [status |-> READY, metrics |-> TRUE,
          result |-> [op |-> "initialize", outcome |-> "returned",
                      exc |-> NoError, trigger |-> trigger]]
    ELSE [status |-> ERROR, metrics |-> metrics_client,
          result |-> [op |-> "initialize", outcome |-> "raised",
                      exc |-> trigger, trigger |-> trigger]]

\* DomainAgent.initialize (domain_agent.py:37-46); it has no await.
Initialize(trigger) ==
    /\ status' = InitializeOutcome(trigger).status
    /\ metrics_client' = InitializeOutcome(trigger).metrics
    /\ lastOp' = InitializeOutcome(trigger).result
    /\ UNCHANGED <<current_tasks, max_concurrent_tasks, callVars, orchVars, wfVars, auxVars>>

\* Mutant: the except clause returns an error value instead of re-raising.
ExceptHandler_Swallow(e) ==
    [status |-> ERROR, pc |-> "returned", exc |-> NoError]

\* What the except clause of execute_task does with an exception e
\* (domain_agent.py:68-71): the status it sets, and how the call ends.
ExceptHandler(e) ==
    [status |-> ERROR, pc |-> "raised", exc |-> e]

\* execute_task from its entry to the await of the task body
\* (domain_agent.py:48-61), as the state it leaves and how the call stands.
\* tid = NoTaskId is a task without "task_id": task["task_id"] then raises
\* KeyError inside the try, after line 57 has set BUSY.
ExecuteTaskEntry(st, tasks, max, tid) ==
    LET gate == ExecuteTaskGate(st, tasks, max) IN
    IF gate # "accept"
    THEN [status |-> st, tasks |-> tasks, pc |-> "raised", exc |-> gate,
          ran |-> FALSE, tid |-> NoTaskId]
    ELSE IF tid = NoTaskId
    THEN [status |-> ExceptHandler(TaskIdKeyError).status, tasks |-> tasks,
          pc |-> ExceptHandler(TaskIdKeyError).pc,
          exc |-> ExceptHandler(TaskIdKeyError).exc, ran |-> FALSE, tid |-> NoTaskId]
    ELSE [status |-> BUSY, tasks |-> Append(tasks, tid), pc |-> "running",
          exc |-> NoError, ran |-> TRUE, tid |-> tid]

\* A caller enters DomainAgent.execute_task (domain_agent.py:48-61).
ExecuteTask(c, tid) ==
    /\ callPc[c] = "idle"
    /\ LET r == ExecuteTaskEntry(status, current_tasks, max_concurrent_tasks, tid) IN
       /\ status' = r.status
       /\ current_tasks' = r.tasks
       /\ callPc' = [callPc EXCEPT ![c] = r.pc]
       /\ callExc' = [callExc EXCEPT ![c] = r.exc]
       /\ implRan' = [implRan EXCEPT ![c] = r.ran]
       /\ callTask' = [callTask EXCEPT ![c] = r.tid]
    /\ UNCHANGED <<metrics_client, max_concurrent_tasks, implExc, opVars,
                   orchVars, wfVars, auxVars>>

\* The task body returned: execute_task from line 63 to its return
\* (domain_agent.py:63-67).
TaskReturns(c) ==
    /\ callPc[c] = "running"
    /\ LET rest == RemoveFirst(current_tasks, callTask[c]) IN
       /\ current_tasks' = rest
       /\ status' = IF rest = <<>> THEN READY ELSE status
    /\ callPc' = [callPc EXCEPT ![c] = "returned"]
    /\ UNCHANGED <<metrics_client, max_concurrent_tasks, callTask, callExc,
                   implRan, implExc, opVars, orchVars, wfVars, auxVars>>

\* The task body raised e: the except clause (domain_agent.py:68-71).
TaskRaises(c, e) ==
    /\ callPc[c] = "running"
    /\ implExc' = [implExc EXCEPT ![c] = e]
    /\ status' = ExceptHandler(e).status
    /\ callPc' = [callPc EXCEPT ![c] = ExceptHandler(e).pc]
    /\ callExc' = [callExc EXCEPT ![c] = ExceptHandler(e).exc]
    /\ UNCHANGED <<current_tasks, metrics_client, max_concurrent_tasks,
                   callTask, implRan, opVars, orchVars, wfVars, auxVars>>

\* DomainAgent.shutdown (domain_agent.py:87-96). closeOk is whether
\* metrics_client.close() returned; it is only called when the client is set.
Shutdown(closeOk) ==
    /\ (~metrics_client) => closeOk
    /\ status' = IF closeOk THEN SHUTDOWN ELSE status
    /\ lastOp' = [op |-> "shutdown",
                  outcome |-> IF closeOk THEN "returned" ELSE "raised",
                  exc |-> IF closeOk THEN NoError ELSE "CloseError",
                  trigger |-> IF closeOk THEN NoError ELSE "CloseError"]
    /\ UNCHANGED <<current_tasks, metrics_client, max_concurrent_tasks, callVars,
                   orchVars, wfVars, auxVars>>

\* Mutant: the report takes a busy agent for a ready one.
ReportSnapshot_Ready(st, tasks) ==
    [status |-> IF st = BUSY THEN READY ELSE st, current_tasks |-> tasks]

\* The status and current_tasks entries of the map report_status returns
\* (domain_agent.py:79-85); agent_id, capabilities and timestamp are left
\* out.
ReportSnapshot(st, tasks) ==
    [status |-> st, current_tasks |-> tasks]

\* DomainAgent.report_status (domain_agent.py:77-85): it has no guard, no
\* await and assigns nothing.
ReportStatus ==
    /\ lastReport' = [snapshot |-> ReportSnapshot(status, current_tasks),
                      call |-> IF lastReport = NoReport THEN "first" ELSE "again"]
    /\ UNCHANGED <<agentVars, callVars, opVars, orchVars, wfVars, cfgVars,
                   cleanupVars, parVars, rlVars, ehVars, timerVars>>

\* The caller of a finished execute_task drops its result; the slot is
\* free for the next call.
Collect(c) ==
    /\ callPc[c] \in {"returned", "raised"}
    /\ callPc' = [callPc EXCEPT ![c] = "idle"]
    /\ callTask' = [callTask EXCEPT ![c] = NoTaskId]
    /\ callExc' = [callExc EXCEPT ![c] = NoError]
    /\ implRan' = [implRan EXCEPT ![c] = FALSE]
    /\ implExc' = [implExc EXCEPT ![c] = NoError]
    /\ UNCHANGED <<agentVars, opVars, orchVars, wfVars, auxVars>>

\* ------------------------------------------------------- AgentOrchestrator

\* The keys of self.agents once initialize() has built the agents, in the
\* order they are inserted (agent_orchestrator.py:60-77).
AgentNames == <<"research", "documentation", "prompt", "analytics">>

\* Whether the agent's class defines initialize(): only AnalyticsAgent
\* inherits one, from DomainAgent (domain_agent.py:37);
\* InternetDocumentationAgent, DocumentationMakerAgent and
\* PromptEngineeringAgent define none, so agent.initialize() raises
\* AttributeError on them.
HasInitialize(a) == a = "analytics"

\* The loop that initializes the agents (agent_orchestrator.py:80-81):
\* the first agent whose initialize() raises ends it. trigger is what
\* MetricsClient() does in DomainAgent.initialize.
RECURSIVE InitializeAgents(_, _, _)
InitializeAgents(names, trigger, done) ==
    IF names = <<>> THEN [failed |-> "none", exc |-> NoError, initialized |-> done]
    ELSE IF ~HasInitialize(Head(names))
    THEN [failed |-> Head(names), exc |-> "AttributeError", initialized |-> done]
    ELSE IF InitializeOutcome(trigger).result.outcome = "raised"
    THEN [failed |-> Head(names), exc |-> InitializeOutcome(trigger).result.exc,
          initialized |-> done]
    ELSE InitializeAgents(Tail(names), trigger, done \cup {Head(names)})

\* Mutant: the except clause of AgentOrchestrator.initialize logs and does
\* not re-raise.
OrchExceptHandler_Swallow(e, failed) ==
    [outcome |-> "returned", exc |-> NoError, failed |-> failed]

\* The except clause of AgentOrchestrator.initialize
\* (agent_orchestrator.py:85-87): e was raised by the step `failed`.
OrchExceptHandler(e, failed) ==
    [outcome |-> "raised", exc |-> e, failed |-> failed]

\* AgentOrchestrator.initialize (agent_orchestrator.py:52-87), as the state
\* it leaves. hubTrigger is what MetricsClient() does in DataHub.initialize
\* (data_hub.py:36-49), agentTrigger what it does in DomainAgent.initialize.
\* rebuilt: the agents were constructed anew (lines 60-77).
OrchInitializeOutcome(hubTrigger, agentTrigger) ==
    IF hubTrigger # NoError
    THEN [rebuilt |-> FALSE, status |-> status, metrics |-> metrics_client,
          result |-> OrchExceptHandler(hubTrigger, "data_hub")]
    ELSE LET r == InitializeAgents(AgentNames, agentTrigger, {}) IN
         [rebuilt |-> TRUE,
          status |-> IF "analytics" \in r.initialized THEN READY
                     ELSE IF r.failed = "analytics" THEN ERROR
                     ELSE INITIALIZING,
          metrics |-> "analytics" \in r.initialized,
          result |-> IF r.failed = "none"
                     THEN [outcome |-> "returned", exc |-> NoError, failed |-> "none"]
                     ELSE OrchExceptHandler(r.exc, r.failed)]

\* The assignments of AgentOrchestrator.initialize with outcome o.
ApplyOrchInitialize(o) ==
    /\ data_hub' = TRUE
    /\ lastOrchInit' = o.result
    /\ agents' = IF o.rebuilt THEN AgentNames ELSE agents
    /\ status' = o.status
    /\ metrics_client' = o.metrics
    /\ current_tasks' = IF o.rebuilt THEN <<>> ELSE current_tasks
    /\ max_concurrent_tasks' =
           IF o.rebuilt THEN DefaultMaxConcurrentTasks ELSE max_concurrent_tasks

NoCleanup == [outcome |-> "none", tornDown |-> {}]

\* The first step of execute_workflow (agent_orchestrator.py:99-101).
FirstStep == "research"

\* Mutant: the documentation step is left out of the pipeline.
StepAfter_SkipDocumentation(step) ==
    CASE step = "research" -> "prompt"
      [] step = "documentation" -> "prompt"
      [] step = "prompt" -> "analytics"

\* The step execute_workflow awaits after `step` has returned
\* (agent_orchestrator.py:99-124); whatever config.mode is, the steps are
\* awaited one after the other.
StepAfter(step) ==
    CASE step = "research" -> "documentation"
      [] step = "documentation" -> "prompt"
      [] step = "prompt" -> "analytics"

\* Mutant: the except clause of execute_workflow re-raises.
WorkflowExceptHandler_Reraise(e) ==
    [pc |-> "raised", error |-> NoError]

\* The except clause of execute_workflow (agent_orchestrator.py:140-149):
\* OrchestratorConfig has no error-handling policy and none is read here;
\* the clause always returns a map whose "error" entry is str(e).
WorkflowExceptHandler(e) ==
    [pc |-> "done", error |-> e]

\* A client calls AgentOrchestrator.initialize (server.py:55).
OrchInitialize(hubTrigger, agentTrigger) ==
    /\ ApplyOrchInitialize(OrchInitializeOutcome(hubTrigger, agentTrigger))
    /\ UNCHANGED <<execution_history, context_store, callVars, opVars, wfVars,
                   auxVars>>

\* execute_workflow from its entry to the await of research_topic
\* (agent_orchestrator.py:89-101): initialize() only when self.agents is
\* empty, then create_context (lines 176-186, keyed by topic; call w uses
\* topic w) and the research step. An exception of initialize() is caught
\* by the except clause of execute_workflow (lines 140-149).
StartWorkflow(w, hubTrigger, agentTrigger) ==
    /\ wfPc[w] = "idle"
    /\ IF agents = <<>>
       THEN LET o == OrchInitializeOutcome(hubTrigger, agentTrigger) IN
            /\ ApplyOrchInitialize(o)
            /\ IF o.result.outcome = "raised"
               THEN /\ wfPc' = [wfPc EXCEPT ![w] =
                                  WorkflowExceptHandler(o.result.exc).pc]
                    /\ wfError' = [wfError EXCEPT ![w] =
                                  WorkflowExceptHandler(o.result.exc).error]
                    /\ UNCHANGED <<context_store, wfLog>>
               ELSE /\ wfPc' = [wfPc EXCEPT ![w] = FirstStep]
                    /\ wfLog' = [wfLog EXCEPT ![w] = <<<<FirstStep, "start">>>>]
                    /\ context_store' = context_store \cup {w}
                    /\ UNCHANGED wfError
       ELSE /\ hubTrigger = NoError /\ agentTrigger = NoError
            /\ wfPc' = [wfPc EXCEPT ![w] = FirstStep]
            /\ wfLog' = [wfLog EXCEPT ![w] = <<<<FirstStep, "start">>>>]
            /\ context_store' = context_store \cup {w}
            /\ UNCHANGED <<agentVars, data_hub, agents, lastOrchInit, wfError>>
    /\ UNCHANGED <<execution_history, callVars, opVars, auxVars>>

\* research_topic returned (internet_documentation_agent.py:33-66): the
\* workflow goes on to await generate_documentation (lines 103-105).
ResearchReturns(w) ==
    /\ wfPc[w] = "research"
    /\ wfPc' = [wfPc EXCEPT ![w] = StepAfter("research")]
    /\ wfLog' = [wfLog EXCEPT ![w] =
                    @ \o << <<"research", "return">>,
                            <<StepAfter("research"), "start">> >>]
    /\ UNCHANGED <<agentVars, callVars, opVars, orchVars, wfError, auxVars>>

\* research_topic raised e (internet_documentation_agent.py:68-70); the
\* except clause of execute_workflow returns the error map (lines 140-149).
ResearchRaises(w, e) ==
    /\ wfPc[w] = "research"
    /\ wfPc' = [wfPc EXCEPT ![w] = WorkflowExceptHandler(e).pc]
    /\ wfError' = [wfError EXCEPT ![w] = WorkflowExceptHandler(e).error]
    /\ wfLog' = [wfLog EXCEPT ![w] = Append(@, <<"research", "raise">>)]
    /\ UNCHANGED <<agentVars, callVars, opVars, orchVars, auxVars>>

\* generate_documentation returned; it catches every exception itself
\* (documentation_maker_agent.py:35-63). The workflow goes on to await
\* optimize_prompt (lines 107-112).
DocumentationReturns(w) ==
    /\ wfPc[w] = "documentation"
    /\ wfPc' = [wfPc EXCEPT ![w] = StepAfter("documentation")]
    /\ wfLog' = [wfLog EXCEPT ![w] =
                    @ \o << <<"documentation", "return">>,
                            <<StepAfter("documentation"), "start">> >>]
    /\ UNCHANGED <<agentVars, callVars, opVars, orchVars, wfError, auxVars>>

\* optimize_prompt returned; it catches every exception itself
\* (prompt_engineering_agent.py:145-195). The workflow then calls
\* execute_task on the analytics agent with a task that has no "task_id"
\* (lines 114-124), so the call raises before the task body; the except
\* clause returns the error map. Lines 126-138 run only if it returned.
PromptReturns(w) ==
    /\ wfPc[w] = "prompt"
    /\ LET r == ExecuteTaskEntry(status, current_tasks, max_concurrent_tasks,
                                 NoTaskId) IN
       /\ status' = r.status
       /\ current_tasks' = r.tasks
       /\ wfLog' = [wfLog EXCEPT ![w] =
                       @ \o << <<"prompt", "return">>,
                               <<StepAfter("prompt"), "start">>,
                               <<StepAfter("prompt"),
                                 IF r.pc = "raised" THEN "raise" ELSE "return">> >>]
       /\ IF r.pc = "raised"
          THEN /\ wfPc' = [wfPc EXCEPT ![w] = WorkflowExceptHandler(r.exc).pc]
               /\ wfError' = [wfError EXCEPT ![w] = WorkflowExceptHandler(r.exc).error]
               /\ UNCHANGED execution_history
          ELSE /\ wfPc' = [wfPc EXCEPT ![w] = "done"]
               /\ wfError' = [wfError EXCEPT ![w] = NoError]
               /\ execution_history' = Append(execution_history, w)
    /\ UNCHANGED <<metrics_client, max_concurrent_tasks, data_hub, agents,
                   context_store, lastOrchInit, callVars, opVars, auxVars>>

\* The caller of a finished execute_workflow drops the result map.
CollectWorkflow(w) ==
    /\ wfPc[w] \in {"done", "raised"}
    /\ wfPc' = [wfPc EXCEPT ![w] = "idle"]
    /\ wfError' = [wfError EXCEPT ![w] = NoError]
    /\ wfLog' = [wfLog EXCEPT ![w] = <<>>]
    /\ UNCHANGED <<agentVars, callVars, opVars, orchVars, auxVars>>

\* AgentOrchestrator.__init__ (agent_orchestrator.py:43-50), no workflow
\* call in progress.
\* The classes behind self.agents (agent_orchestrator.py:60-77) define no
\* cleanup method: DomainAgent has shutdown (domain_agent.py:87), the three
\* LLM agents have no teardown at all.
HasCleanup(a) == FALSE

\* The loop of cleanup() (agent_orchestrator.py:166-168) over the agents
\* `names`, in dict order: an agent without a cleanup attribute is passed
\* over; the first cleanup() that raises ends the loop.
RECURSIVE CleanupAgents(_, _, _)
CleanupAgents(names, trigger, done) ==
    IF names = <<>>
    THEN [tornDown |-> done, exc |-> NoError]
    ELSE IF ~HasCleanup(Head(names))
         THEN CleanupAgents(Tail(names), trigger, done)
         ELSE IF trigger[Head(names)] # NoError
              THEN [tornDown |-> done \cup {Head(names)},
                    exc |-> trigger[Head(names)]]
              ELSE CleanupAgents(Tail(names), trigger,
                                 done \cup {Head(names)})

\* cleanup() (agent_orchestrator.py:163-174): the loop, then
\* DataHub.cleanup (data_hub.py:104-113), whose sources are all None and
\* have nothing to close; the except clause re-raises.
CleanupOutcome(trigger) ==
    LET r == CleanupAgents(agents, trigger, {})
    IN  [outcome |-> IF r.exc = NoError THEN "returned" ELSE "raised",
         tornDown |-> r.tornDown]

\* A client calls AgentOrchestrator.cleanup (api/rest_api.py:280-281);
\* trigger[a] is what agent a's cleanup() would raise.
Cleanup(trigger) ==
    /\ lastCleanup' = CleanupOutcome(trigger)
    /\ UNCHANGED <<agentVars, callVars, opVars, orchVars, wfVars, cfgVars,
                   parVars, rlVars, ehVars, reportVars, timerVars>>

OrchestratorInit ==
    /\ data_hub = FALSE
    /\ agents = <<>>
    /\ execution_history = <<>>
    /\ context_store = {}
    /\ lastOrchInit = NoOrchInit
    /\ wfPc = [w \in Workflows |-> "idle"]
    /\ wfError = [w \in Workflows |-> NoError]
    /\ wfLog = [w \in Workflows |-> <<>>]
    /\ lastCleanup = NoCleanup
    /\ parPc = "idle"
    /\ parPlans = <<>>
    /\ parTasks = <<>>
    /\ parResults = <<>>

\* OrchestratorConfig() (agent_orchestrator.py:28-33): the defaults.
DefaultConfig ==
    /\ mode = "sequential"
    /\ orch_max_concurrent_tasks = DefaultOrchMaxConcurrentTasks

\* RateLimiter.__init__ (utils.py:8-12) with interval i, at time t.
RateLimiterNew(i, t) ==
    /\ rlNow = t
    /\ interval = i
    /\ last_call_time = 0
    /\ rlLocked = FALSE
    /\ rlWaiters = <<>>
    /\ rlPc = [c \in RlCallers |-> "idle"]
    /\ rlWakeAt = [c \in RlCallers |-> 0]
    /\ permitted = <<>>
    /\ rlLast = NoRlCall

\* ErrorHandler.__init__ (error_handler.py:27-29).
ErrorHandlerNew ==
    /\ ehNow = 0
    /\ error_log = <<>>
    /\ ehCalls = 0
    /\ ehLast = NoHandled

\* No report has been asked for yet.
ReportInit ==
    lastReport = NoReport

\* No call is being awaited.
TimerInit ==
    callAge = [c \in Calls |-> 0]

Init ==
    /\ AgentInit
    /\ OrchestratorInit
    /\ DefaultConfig
    /\ RateLimiterNew(1, StartTime)
    /\ ErrorHandlerNew
    /\ ReportInit
    /\ TimerInit
    /\ callPc = [c \in Calls |-> "idle"]
    /\ callTask = [c \in Calls |-> NoTaskId]
    /\ callExc = [c \in Calls |-> NoError]
    /\ implRan = [c \in Calls |-> FALSE]
    /\ implExc = [c \in Calls |-> NoError]
    /\ lastOp = NoOp

Next ==
    \/ \E trigger \in InitErrors \cup {NoError} : Initialize(trigger)
    \/ \E c \in Calls, tid \in TaskIds \cup {NoTaskId} : ExecuteTask(c, tid)
    \/ \E c \in Calls : TaskReturns(c)
    \/ \E c \in Calls, e \in BodyErrors : TaskRaises(c, e)
    \/ \E closeOk \in BOOLEAN : Shutdown(closeOk)
    \/ \E c \in Calls : Collect(c)

Spec == Init /\ [][Next]_vars

\* Time passes for the callers of execute_task: a tick ages every call
\* whose body is awaited (domain_agent.py:63); a call that is over has no
\* age. execute_task sets no timer and config.timeout_seconds
\* (domain_agent.py:26) is read nowhere, so a tick does nothing else.
TimerTick ==
    /\ \A c \in Calls : callAge[c] <= TimeoutTicks
    /\ callAge' = [c \in Calls |->
                      IF callPc[c] = "running" THEN callAge[c] + 1 ELSE 0]
    /\ UNCHANGED <<agentVars, callVars, opVars, orchVars, wfVars, cfgVars,
                   cleanupVars, parVars, rlVars, ehVars, reportVars>>

\* The agent and its callers on a clock; a caller starts its next call no
\* earlier than the tick after its last one ended.
TimerNext ==
    \/ \E c \in Calls, tid \in TaskIds \cup {NoTaskId} :
          callAge[c] = 0 /\ ExecuteTask(c, tid)
    \/ \E trigger \in InitErrors \cup {NoError} : Initialize(trigger)
    \/ \E c \in Calls : TaskReturns(c)
    \/ \E c \in Calls, e \in BodyErrors : TaskRaises(c, e)
    \/ \E closeOk \in BOOLEAN : Shutdown(closeOk)
    \/ \E c \in Calls : Collect(c)
    \/ TimerTick

TimerSpec == Init /\ [][TimerNext]_vars

\* The agent and its callers when initialize() is only called while no
\* task body is awaited.
SteadyNext ==
    \/ \E trigger \in InitErrors \cup {NoError} :
          (\A c \in Calls : callPc[c] # "running") /\ Initialize(trigger)
    \/ \E c \in Calls, tid \in TaskIds \cup {NoTaskId} : ExecuteTask(c, tid)
    \/ \E c \in Calls : TaskReturns(c)
    \/ \E c \in Calls, e \in BodyErrors : TaskRaises(c, e)
    \/ \E closeOk \in BOOLEAN : Shutdown(closeOk)
    \/ \E c \in Calls : Collect(c)

SteadySpec == Init /\ [][SteadyNext]_vars

\* The monitor drops the reports it holds.
ReportDone ==
    /\ lastReport # NoReport
    /\ lastReport' = NoReport
    /\ UNCHANGED <<agentVars, callVars, opVars, orchVars, wfVars, cfgVars,
                   cleanupVars, parVars, rlVars, ehVars, timerVars>>

\* The agent and its callers, with a monitor that asks for the status, and
\* asks again before anything else happens to the agent.
ReportNext ==
    \/ lastReport = NoReport /\ Next
    \/ ReportStatus
    \/ ReportDone

ReportSpec == Init /\ [][ReportNext]_vars

\* The orchestrator: its analytics agent is built by initialize() with the
\* default AgentConfig.
OrchBaseInit ==
    /\ status = INITIALIZING
    /\ current_tasks = <<>>
    /\ metrics_client = FALSE
    /\ max_concurrent_tasks = DefaultMaxConcurrentTasks
    /\ callPc = [c \in Calls |-> "idle"]
    /\ callTask = [c \in Calls |-> NoTaskId]
    /\ callExc = [c \in Calls |-> NoError]
    /\ implRan = [c \in Calls |-> FALSE]
    /\ implExc = [c \in Calls |-> NoError]
    /\ lastOp = NoOp
    /\ OrchestratorInit
    /\ RateLimiterNew(1, StartTime)
    /\ ErrorHandlerNew
    /\ ReportInit
    /\ TimerInit

\* An orchestrator built with any mode and the default ceiling.
OrchSpecInit ==
    /\ OrchBaseInit
    /\ mode \in OrchestratorMode
    /\ orch_max_concurrent_tasks = DefaultOrchMaxConcurrentTasks

OrchNext ==
    \/ \E h, a \in InitErrors \cup {NoError} : OrchInitialize(h, a)
    \/ \E w \in Workflows, h, a \in InitErrors \cup {NoError} : StartWorkflow(w, h, a)
    \/ \E w \in Workflows : ResearchReturns(w)
    \/ \E w \in Workflows, e \in StepErrors : ResearchRaises(w, e)
    \/ \E w \in Workflows : DocumentationReturns(w)
    \/ \E w \in Workflows : PromptReturns(w)
    \/ \E w \in Workflows : CollectWorkflow(w)
    \/ \E trigger \in [{AgentNames[i] : i \in 1..Len(AgentNames)} ->
                            TeardownErrors \cup {NoError}] : Cleanup(trigger)

OrchSpec == OrchSpecInit /\ [][OrchNext]_vars

\* ---------------------------------------------------------------------
\* AgentOrchestrator.execute_parallel (agent_orchestrator.py:188-212)
\* ---------------------------------------------------------------------

\* The agent_type values of the plans: a DomainAgent, an agent class
\* without execute_task, and a name that is not in self.agents.
PlanTypes == {"analytics", "research", "bogus"}

SeqsUpTo(S, n) == UNION {[1..k -> S] : k \in 0..n}

\* agent_type in self.agents (agent_orchestrator.py:193).
InAgents(t) == \E i \in 1..Len(agents) : agents[i] = t

\* Only DomainAgent defines execute_task (domain_agent.py:48); the three
\* LLM agent classes do not, so reading agent.execute_task raises.
HasExecuteTask(a) == a = "analytics"

\* The loop over the plans (agent_orchestrator.py:191-199), from plan i on:
\* a plan of unknown type is logged and passed over, without a task; a
\* known agent without execute_task raises AttributeError out of the call.
RECURSIVE DispatchPlans(_, _, _)
DispatchPlans(plans, i, tasks) ==
    IF i > Len(plans)
    THEN [tasks |-> tasks, exc |-> NoError]
    ELSE IF ~InAgents(plans[i])
         THEN DispatchPlans(plans, i + 1, tasks)
         ELSE IF ~HasExecuteTask(plans[i])
              THEN [tasks |-> tasks, exc |-> "AttributeError"]
              ELSE DispatchPlans(plans, i + 1, Append(tasks, i))

\* Mutant: a task that raised is reported as a result.
GatherEntry_DropError(pc, exc) ==
    [kind |-> "result", exc |-> NoError]

\* The entry built for one gathered task (agent_orchestrator.py:205-210):
\* gather(return_exceptions=True) hands the exception of a task that
\* raised over as its result.
GatherEntry(pc, exc) ==
    IF pc = "raised"
    THEN [kind |-> "error", exc |-> exc]
    ELSE [kind |-> "result", exc |-> NoError]

\* A client calls execute_parallel(context, plans): the loop that creates
\* the coroutines, up to the await of gather (agent_orchestrator.py:190-201).
\* The tasks of the call are the callers 1..Len(tasks) of execute_task.
ParDispatch(plans) ==
    /\ parPc = "idle"
    /\ \A c \in Calls : callPc[c] = "idle"
    /\ LET r == DispatchPlans(plans, 1, <<>>) IN
       /\ Len(r.tasks) <= MaxCalls
       /\ parPlans' = plans
       /\ parResults' = <<>>
       /\ IF r.exc # NoError
          THEN /\ parPc' = "raised"
               /\ parTasks' = <<>>
          ELSE /\ parPc' = "gathering"
               /\ parTasks' = r.tasks
    /\ UNCHANGED <<agentVars, callVars, opVars, orchVars, wfVars, cfgVars,
                   cleanupVars, rlVars, ehVars, reportVars, timerVars>>

\* The first steps of the gathered tasks i..n, in the order of creation:
\* each runs execute_task up to its first suspension (domain_agent.py:48-63)
\* on the agent as the task before left it. tids[i] is the task_id of the
\* plan; syncRaise[i]: the body raises before it suspends (an unknown task
\* type, analytics_agent.py:28-29).
RECURSIVE StartTasks(_, _, _, _, _, _, _)
StartTasks(i, n, tids, syncRaise, st, tasks, out) ==
    IF i > n
    THEN [status |-> st, tasks |-> tasks, out |-> out]
    ELSE LET r == ExecuteTaskEntry(st, tasks, max_concurrent_tasks, tids[i])
             e == "ValueError"
             q == IF r.pc = "running" /\ syncRaise[i]
                  THEN [status |-> ExceptHandler(e).status, tasks |-> r.tasks,
                        pc |-> ExceptHandler(e).pc, exc |-> ExceptHandler(e).exc,
                        ran |-> r.ran, tid |-> r.tid, impl |-> e]
                  ELSE [status |-> r.status, tasks |-> r.tasks, pc |-> r.pc,
                        exc |-> r.exc, ran |-> r.ran, tid |-> r.tid,
                        impl |-> NoError]
         IN StartTasks(i + 1, n, tids, syncRaise, q.status, q.tasks,
                       Append(out, q))

\* The event loop runs the first steps of the gathered tasks: gather
\* schedules them one behind the other (agent_orchestrator.py:201), so
\* nothing else runs between them.
ParStartAll(tids, syncRaise) ==
    /\ parPc = "gathering"
    /\ parTasks # <<>>
    /\ \A c \in 1..Len(parTasks) : callPc[c] = "idle"
    /\ LET n == Len(parTasks)
           r == StartTasks(1, n, tids, syncRaise, status, current_tasks, <<>>)
       IN /\ status' = r.status
          /\ current_tasks' = r.tasks
          /\ callPc' = [c \in Calls |-> IF c <= n THEN r.out[c].pc ELSE callPc[c]]
          /\ callExc' = [c \in Calls |-> IF c <= n THEN r.out[c].exc ELSE callExc[c]]
          /\ implRan' = [c \in Calls |-> IF c <= n THEN r.out[c].ran ELSE implRan[c]]
          /\ callTask' = [c \in Calls |-> IF c <= n THEN r.out[c].tid ELSE callTask[c]]
          /\ implExc' = [c \in Calls |-> IF c <= n THEN r.out[c].impl ELSE implExc[c]]
    /\ UNCHANGED <<metrics_client, max_concurrent_tasks, opVars, orchVars,
                   wfVars, auxVars>>

\* gather completes when every task has settled; execute_parallel builds
\* execution_results and returns (agent_orchestrator.py:201-212).
ParGatherDone ==
    /\ parPc = "gathering"
    /\ \A c \in 1..Len(parTasks) : callPc[c] \in {"returned", "raised"}
    /\ parResults' = [i \in 1..Len(parTasks) |-> GatherEntry(callPc[i], callExc[i])]
    /\ parPc' = "returned"
    /\ UNCHANGED <<agentVars, callVars, opVars, orchVars, wfVars, cfgVars,
                   cleanupVars, parPlans, parTasks, rlVars, ehVars,
                   reportVars, timerVars>>

\* The caller of execute_parallel has its results (or its exception).
ParCollect ==
    /\ parPc \in {"returned", "raised"}
    /\ parPc' = "idle"
    /\ parPlans' = <<>>
    /\ parTasks' = <<>>
    /\ parResults' = <<>>
    /\ callPc' = [c \in Calls |-> "idle"]
    /\ callTask' = [c \in Calls |-> NoTaskId]
    /\ callExc' = [c \in Calls |-> NoError]
    /\ implRan' = [c \in Calls |-> FALSE]
    /\ implExc' = [c \in Calls |-> NoError]
    /\ UNCHANGED <<agentVars, opVars, orchVars, wfVars, cfgVars, cleanupVars,
                   rlVars, ehVars, reportVars, timerVars>>

\* A client initializes the analytics agent itself: the loop of the
\* orchestrator's initialize() raises before it reaches that agent.
AnalyticsInitialize(trigger) ==
    /\ InAgents("analytics")
    /\ Initialize(trigger)

ParSpecInit ==
    /\ OrchSpecInit
    /\ DefaultConfig

ParNext ==
    \/ \E h, a \in InitErrors \cup {NoError} : OrchInitialize(h, a)
    \/ \E trigger \in InitErrors \cup {NoError} : AnalyticsInitialize(trigger)
    \/ \E plans \in SeqsUpTo(PlanTypes, MaxPlans) : ParDispatch(plans)
    \/ \E tids \in [1..Len(parTasks) -> TaskIds \cup {NoTaskId}],
          syncRaise \in [1..Len(parTasks) -> BOOLEAN] :
          ParStartAll(tids, syncRaise)
    \/ \E c \in Calls : TaskReturns(c)
    \/ \E c \in Calls, e \in BodyErrors : TaskRaises(c, e)
    \/ ParGatherDone
    \/ ParCollect

ParSpec == ParSpecInit /\ [][ParNext]_vars

\* execute_parallel on an orchestrator built with
\* OrchestratorConfig(max_concurrent_tasks=m).
ParCeilingInit ==
    /\ OrchBaseInit
    /\ mode = "sequential"
    /\ orch_max_concurrent_tasks \in 1..MaxCapacity

ParCeilingSpec == ParCeilingInit /\ [][ParNext]_vars

\* ---------------------------------------------------------------------
\* RateLimiter (utils.py:7-25)
\* ---------------------------------------------------------------------

\* What a caller hands to the limiter: a coroutine object, or a function
\* returning one (test_rate_limiter.py:23, utils.py:34).
RlArgs == {"coroutine", "function"}
\* What the wrapped operation yields when it is run.
RlOutcomes == {[kind |-> "value", val |-> "test_result"],
               [kind |-> "raise", val |-> "ValueError"]}

\* What the RateLimiter never touches.
nonRlVars == <<agentVars, callVars, opVars, orchVars, wfVars, cfgVars,
               cleanupVars, parVars, ehVars, reportVars, timerVars>>

\* Mutant: the sleep is one tick short.
SleepTime_Short(now, last, ival) ==
    IF now - last < ival THEN ival - (now - last) - 1 ELSE 0

\* The time __call__ sleeps when it reads the clock at `now`
\* (utils.py:16-21); 0 stands for not sleeping.
SleepTime(now, last, ival) ==
    IF now - last < ival THEN ival - (now - last) ELSE 0

\* Caller c holds the lock and runs __call__ from line 16 to its next
\* await: the sleep (utils.py:21), or the wrapped call after
\* last_call_time has been set (utils.py:23-25).
Gate(c) ==
    LET d == SleepTime(rlNow, last_call_time, interval) IN
    IF d > 0
    THEN /\ rlPc' = [rlPc EXCEPT ![c] = "sleeping"]
         /\ rlWakeAt' = [rlWakeAt EXCEPT ![c] = rlNow + d]
         /\ UNCHANGED <<last_call_time, permitted, rlLast>>
    ELSE /\ rlPc' = [rlPc EXCEPT ![c] = "calling"]
         /\ last_call_time' = rlNow
         /\ permitted' = Append(permitted, [at |-> rlNow, slept |-> FALSE])
         /\ UNCHANGED <<rlWakeAt, rlLast>>

\* Caller c calls the limiter (utils.py:14-15): it takes the lock when it
\* is free and nobody waits for it (asyncio.Lock is first come, first
\* served), and queues otherwise.
RlCall(c) ==
    /\ rlPc[c] = "idle"
    /\ Len(permitted) + Cardinality({d \in RlCallers : rlPc[d] # "idle"}) < MaxPermits
    /\ IF ~rlLocked /\ rlWaiters = <<>>
       THEN /\ rlLocked' = TRUE
            /\ Gate(c)
            /\ UNCHANGED rlWaiters
       ELSE /\ rlPc' = [rlPc EXCEPT ![c] = "waiting"]
            /\ rlWaiters' = Append(rlWaiters, c)
            /\ UNCHANGED <<rlLocked, last_call_time, permitted, rlWakeAt,
                           rlLast>>
    /\ UNCHANGED <<rlNow, interval, nonRlVars>>

\* The first waiter is woken by the release and takes the lock.
RlAcquire(c) ==
    /\ ~rlLocked
    /\ rlWaiters # <<>>
    /\ c = Head(rlWaiters)
    /\ rlLocked' = TRUE
    /\ rlWaiters' = Tail(rlWaiters)
    /\ Gate(c)
    /\ UNCHANGED <<rlNow, interval, nonRlVars>>

\* asyncio.sleep(sleep_time) is over: last_call_time is set to the time
\* read now, without a second look at the interval (utils.py:21-23).
RlWake(c) ==
    /\ rlPc[c] = "sleeping"
    /\ rlNow >= rlWakeAt[c]
    /\ rlPc' = [rlPc EXCEPT ![c] = "calling"]
    /\ last_call_time' = rlNow
    /\ permitted' = Append(permitted, [at |-> rlNow, slept |-> TRUE])
    /\ UNCHANGED <<rlNow, interval, rlLocked, rlWaiters, rlWakeAt, rlLast,
                   nonRlVars>>

\* `return await func` (utils.py:25): func is awaited as it was passed.
\* A coroutine object yields the outcome of the operation; a function
\* (what the rate_limit wrapper passes, utils.py:34, and what the tests
\* pass) is not awaitable and is never called: TypeError.
AwaitFunc(arg, op) ==
    IF arg = "function"
    THEN [kind |-> "raise", val |-> "TypeError"]
    ELSE op

\* `return await func` is over for a caller that passed `arg`, whose
\* operation yields `op`; leaving the `async with` releases the lock
\* whether by a value or by an exception (utils.py:15, 25).
RlCallDone(c, arg, op) ==
    /\ rlPc[c] = "calling"
    /\ rlPc' = [rlPc EXCEPT ![c] = "idle"]
    /\ rlLocked' = FALSE
    /\ rlLast' = [arg |-> arg, op |-> op, got |-> AwaitFunc(arg, op)]
    /\ UNCHANGED <<rlNow, interval, last_call_time, rlWaiters, rlWakeAt,
                   permitted, nonRlVars>>

\* Time passes.
RlTick ==
    /\ rlNow < MaxTime
    /\ rlNow' = rlNow + 1
    /\ UNCHANGED <<interval, last_call_time, rlLocked, rlWaiters, rlPc,
                   rlWakeAt, permitted, rlLast, nonRlVars>>

RateSpecInit ==
    /\ AgentInit
    /\ OrchestratorInit
    /\ DefaultConfig
    /\ callPc = [c \in Calls |-> "idle"]
    /\ callTask = [c \in Calls |-> NoTaskId]
    /\ callExc = [c \in Calls |-> NoError]
    /\ implRan = [c \in Calls |-> FALSE]
    /\ implExc = [c \in Calls |-> NoError]
    /\ lastOp = NoOp
    /\ \E i \in 1..MaxInterval : RateLimiterNew(i, StartTime)
    /\ ErrorHandlerNew
    /\ ReportInit
    /\ TimerInit

RateNext ==
    \/ \E c \in RlCallers : RlCall(c)
    \/ \E c \in RlCallers : RlAcquire(c)
    \/ \E c \in RlCallers : RlWake(c)
    \/ \E c \in RlCallers, arg \in RlArgs, op \in RlOutcomes : RlCallDone(c, arg, op)
    \/ RlTick

RateSpec == RateSpecInit /\ [][RateNext]_vars

\* ---------------------------------------------------------------------
\* ErrorHandler (error_handler.py:26-86)
\* ---------------------------------------------------------------------

nonEhVars == <<agentVars, callVars, opVars, orchVars, wfVars, cfgVars,
               cleanupVars, parVars, rlVars, reportVars, timerVars>>

\* ErrorSeverity (error_handler.py:8-13)
ErrorSeverity == {"debug", "info", "warning", "error", "critical"}
Operations == {"operation_0", "operation_1"}

\* error_id (error_handler.py:39): the agent name and now() formatted
\* down to the second; the agent name is the same for one handler.
ErrorId(t) ==
    t \div TicksPerSecond

\* d[k] = v (error_handler.py:52): a new key, or the value of an
\* existing key replaced.
DictSet(d, k, v) ==
    [x \in DOMAIN d \cup {k} |-> IF x = k THEN v ELSE d[x]]

\* handle_error after the entry is stored (error_handler.py:52-55):
\* _log_error is called without a try; what the logger raises leaves
\* handle_error in place of the return.
HandleErrorOutcome(logFails) ==
    IF logFails THEN "raised" ELSE "returned"

\* handle_error(error, operation, severity) (error_handler.py:31-55);
\* logFails: the logger call of _log_error (57-78) raises.
HandleError(operation, severity, logFails) ==
    /\ ehCalls < MaxErrors
    /\ LET id == ErrorId(ehNow)
           ctx == [timestamp |-> ehNow, operation |-> operation,
                   severity |-> severity]
       IN /\ error_log' = DictSet(error_log, id, ctx)
          /\ ehLast' = [outcome |-> HandleErrorOutcome(logFails), id |-> id,
                        logFailed |-> logFails]
    /\ ehCalls' = ehCalls + 1
    /\ UNCHANGED <<ehNow, nonEhVars>>

\* clear_error_history (error_handler.py:84-86).
ClearErrorHistory ==
    /\ error_log' = <<>>
    /\ ehCalls' = 0
    /\ UNCHANGED <<ehNow, ehLast, nonEhVars>>

\* Time passes.
EhTick ==
    /\ ehNow < MaxEhTicks
    /\ ehNow' = ehNow + 1
    /\ UNCHANGED <<error_log, ehCalls, ehLast, nonEhVars>>

ErrSpecInit == Init

ErrNext ==
    \/ \E operation \in Operations, severity \in ErrorSeverity, logFails \in BOOLEAN :
          HandleError(operation, severity, logFails)
    \/ ClearErrorHistory
    \/ EhTick

ErrSpec == ErrSpecInit /\ [][ErrNext]_vars

\* ------------------------------------------------------------------ claims

InFlight == {c \in Calls : callPc[c] = "running"}
\* Call c enters execute_task in this step.
Entered(c) == callPc[c] = "idle" /\ callPc'[c] # "idle"
\* Call c is submitted in this step with a task that has a "task_id".
Submitted(c) == Entered(c) /\ callExc'[c] # TaskIdKeyError
\* The task body of call c finishes in this step.
BodyFinished(c) == callPc[c] = "running" /\ callPc'[c] # "running"

\* C1: in every reachable state len(current_tasks) <= max_concurrent_tasks.
C1_CapacityBound == Len(current_tasks) <= max_concurrent_tasks

\* C1 witness: the list is full (with two entries) and a call was turned
\* away by the capacity guard.
C1_Witness ==
    /\ max_concurrent_tasks = 2
    /\ Len(current_tasks) = max_concurrent_tasks
    /\ \E c \in Calls : callPc[c] = "raised" /\ callExc[c] = CapacityError

\* The agent has only accepted calls since it was READY and idle: every
\* entry of current_tasks belongs to a call whose body is suspended.
ConcurrentBurst ==
    /\ status \in {READY, BUSY}
    /\ (status = READY) => (current_tasks = <<>>)
    /\ Cardinality(InFlight) = Len(current_tasks)

\* C2 (as claimed): of M+1 calls submitted concurrently to a READY agent,
\* each of the first M is accepted and the (M+1)-th fails with the
\* capacity error before its body runs.
C2_BurstAcceptsUpToM ==
    [][\A c \in Calls :
        (Submitted(c) /\ ConcurrentBurst) =>
            IF Len(current_tasks) < max_concurrent_tasks
            THEN callPc'[c] = "running"
            ELSE /\ callPc'[c] = "raised"
                 /\ callExc'[c] = CapacityError
                 /\ ~implRan'[c]]_vars

\* C3 (as claimed): status = BUSY iff current_tasks is non-empty.
C3_BusyIffTasks == (status = BUSY) <=> (current_tasks # <<>>)

\* C4 (as claimed): current_tasks never holds the id of a task that is no
\* longer running: each entry is the id of a call whose body is in flight,
\* and a call that has returned control has its id removed.
C4_NoStaleTaskId ==
    \A i \in 1..Len(current_tasks) :
        \E c \in InFlight : callTask[c] = current_tasks[i]

\* C5: when the body of an accepted call raises, status becomes ERROR and
\* the same exception reaches the caller as an exception.
C5_BodyErrorReraised ==
    [][\A c \in Calls :
        (BodyFinished(c) /\ implExc'[c] # NoError) =>
            /\ status' = ERROR
            /\ callPc'[c] = "raised"
            /\ callExc'[c] = implExc'[c]]_vars

\* C5 witness: a call whose body raised has ended.
C5_Witness ==
    \E c \in Calls :
        /\ implRan[c] /\ implExc[c] \in BodyErrors
        /\ callPc[c] = "raised" /\ callExc[c] = implExc[c]
        /\ status = ERROR

\* C6 (as claimed): a call on a BUSY agent with room is accepted (id
\* appended, body run); the state error is raised only when status is
\* neither READY nor BUSY with room.
C6_BusyWithRoomAccepts ==
    [][\A c \in Calls :
        Submitted(c) =>
            /\ (status = BUSY /\ Len(current_tasks) < max_concurrent_tasks) =>
                   /\ callPc'[c] = "running"
                   /\ implRan'[c]
                   /\ current_tasks' = Append(current_tasks, callTask'[c])
            /\ (callExc'[c] = NotReadyError) =>
                   ~(\/ status = READY
                     \/ status = BUSY /\ Len(current_tasks) < max_concurrent_tasks)]_vars

\* C7: a call on an agent that is INITIALIZING, ERROR or SHUTDOWN raises
\* without running the body and leaves status and current_tasks as they were.
C7_NotReadyRejects ==
    [][\A c \in Calls :
        (Entered(c) /\ status \in {INITIALIZING, ERROR, SHUTDOWN}) =>
            /\ callPc'[c] = "raised"
            /\ callExc'[c] # NoError
            /\ ~implRan'[c]
            /\ status' = status
            /\ current_tasks' = current_tasks]_vars

\* C7 witness: a call was turned away by an agent that is not READY or BUSY.
C7_Witness ==
    \E c \in Calls :
        /\ callPc[c] = "raised" /\ callExc[c] = NotReadyError /\ ~implRan[c]
        /\ status \in {INITIALIZING, ERROR, SHUTDOWN}

\* C8: initialize() either returns with status READY, or raises the
\* triggering error with status ERROR; it never returns normally with a
\* status other than READY.
C8_InitializeOutcomes ==
    [][\A t \in InitErrors \cup {NoError} :
        Initialize(t) =>
            \/ /\ t = NoError
               /\ lastOp'.outcome = "returned"
               /\ status' = READY
            \/ /\ t # NoError
               /\ lastOp'.outcome = "raised"
               /\ lastOp'.exc = t
               /\ status' = ERROR]_vars

\* C8 witness: an initialize() call has failed and raised.
C8_Witness ==
    /\ lastOp.op = "initialize"
    /\ lastOp.outcome = "raised"
    /\ lastOp.exc \in InitErrors
    /\ status = ERROR

\* A workflow call is awaiting one of its steps on an agent.
StepPcs == {"research", "documentation", "prompt"}
AgentNameSet == {AgentNames[i] : i \in 1..Len(AgentNames)}

\* C9 (as claimed): no workflow step is running on any agent unless the
\* orchestrator's initialize() that built the agents completed successfully,
\* also for an execute_workflow issued after an initialize() that raised.
C9_NoStepBeforeInit ==
    \A w \in Workflows :
        wfPc[w] \in StepPcs => lastOrchInit.outcome = "returned"

\* C10: if an agent's initialize() raised during the orchestrator's
\* initialize(), that call raised to its caller.
C10_InitFailFast ==
    lastOrchInit.failed \in AgentNameSet =>
        /\ lastOrchInit.outcome = "raised"
        /\ lastOrchInit.exc # NoError

\* C10 witness: the data hub initialized, an agent's initialize() raised
\* and the orchestrator's initialize() raised.
C10_Witness ==
    /\ data_hub
    /\ agents = AgentNames
    /\ lastOrchInit.failed \in AgentNameSet
    /\ lastOrchInit.outcome = "raised"

\* ---------------------------------------------------------------------
\* Workflow claims
\* ---------------------------------------------------------------------

\* The step the pipeline places before `step`.
PrevStep(step) ==
    CASE step = "documentation" -> "research"
      [] step = "prompt" -> "documentation"
      [] step = "analytics" -> "prompt"

\* Some event of workflow w's log before position i is <<step, kind>>.
LoggedBefore(w, i, step, kind) ==
    \E j \in 1..(i - 1) : wfLog[w][j] = <<step, kind>>

Logged(w, step, kind) ==
    LoggedBefore(w, Len(wfLog[w]) + 1, step, kind)

\* C11: in SEQUENTIAL mode a workflow step other than the first starts
\* only after the step before it has returned: documentation after
\* research, prompt optimization after documentation, analytics after
\* prompt optimization.
C11_SequentialOrder ==
    mode = "sequential" =>
        \A w \in Workflows : \A i \in 1..Len(wfLog[w]) :
            (wfLog[w][i][2] = "start" /\ wfLog[w][i][1] # FirstStep) =>
                LoggedBefore(w, i, PrevStep(wfLog[w][i][1]), "return")

\* C11 witness: a SEQUENTIAL workflow went through all four steps.
C11_Witness ==
    /\ mode = "sequential"
    /\ \E w \in Workflows :
          /\ Logged(w, "documentation", "start")
          /\ Logged(w, "prompt", "start")
          /\ Logged(w, "analytics", "start")

\* execute_workflow call w is over.
Finished(w) == wfPc[w] \in {"done", "raised"}

\* A step of workflow w raised.
StepRaised(w) ==
    \E i \in 1..Len(wfLog[w]) : wfLog[w][i][2] = "raise"

\* C12 (as claimed, for the STRICT policy; the code has no policy to
\* select, so the statement is about every configuration): when a
\* workflow step raised, execute_workflow raised to its caller.
C12_StrictRaises ==
    \A w \in Workflows :
        (Finished(w) /\ StepRaised(w)) => wfPc[w] = "raised"

\* C13: when a workflow step raised, execute_workflow did not raise and
\* returned a map whose "error" entry is set; this holds under every
\* configuration, so also under one meant as LENIENT.
C13_LenientReturnsErrorMap ==
    \A w \in Workflows :
        (Finished(w) /\ StepRaised(w)) =>
            /\ wfPc[w] = "done"
            /\ wfError[w] # NoError

\* C13 witness: a step raised and the call returned its error map.
C13_Witness ==
    \E w \in Workflows :
        /\ StepRaised(w)
        /\ wfPc[w] = "done"
        /\ wfError[w] \in StepErrors

\* The steps the pipeline places after `step`.
StepsAfter(step) ==
    CASE step = "research" -> {"documentation", "prompt", "analytics"}
      [] step = "documentation" -> {"prompt", "analytics"}
      [] step = "prompt" -> {"analytics"}
      [] step = "analytics" -> {}

\* C14 (as claimed): in SEQUENTIAL mode, when step k raised, every step
\* after k was still invoked before execute_workflow returned.
C14_FailureDoesNotSkip ==
    mode = "sequential" =>
        \A w \in Workflows : \A i \in 1..Len(wfLog[w]) :
            (Finished(w) /\ wfLog[w][i][2] = "raise") =>
                \A later \in StepsAfter(wfLog[w][i][1]) :
                    Logged(w, later, "start")

\* C15 (as claimed): every execute_workflow call that returns a result
\* map appends exactly one entry, its own, to execution_history and
\* leaves the entries before it as they were.
C15_ReturnAppendsHistory ==
    [][\A w \in Workflows :
          (wfPc[w] # "done" /\ wfPc'[w] = "done") =>
              execution_history' = Append(execution_history, w)]_vars

\* C18 (as claimed): in PARALLEL mode an exception in one agent call of
\* execute_workflow does not keep the sibling calls from running: when
\* research raised, the documentation call was still dispatched.
C18_ParallelSiblingsRun ==
    mode = "parallel" =>
        \A w \in Workflows :
            (Finished(w) /\ Logged(w, "research", "raise")) =>
                Logged(w, "documentation", "start")

\* C19 (as claimed): cleanup() never raises and has invoked the teardown
\* of every agent of the orchestrator.
C19_CleanupTearsDownAll ==
    lastCleanup.outcome # "none" =>
        /\ lastCleanup.outcome = "returned"
        /\ lastCleanup.tornDown = {agents[i] : i \in 1..Len(agents)}

\* ---------------------------------------------------------------------
\* execute_parallel claims
\* ---------------------------------------------------------------------

\* C16 (as claimed): execute_parallel called with n plans returns exactly
\* n entries, entry i for plan i, and the entry of a plan whose agent type
\* is unknown is an error entry at that plan's own index.
C16_OneEntryPerPlan ==
    parPc = "returned" =>
        /\ Len(parResults) = Len(parPlans)
        /\ \A i \in 1..Len(parPlans) :
              /\ parTasks[i] = i
              /\ ~InAgents(parPlans[i]) => parResults[i].kind = "error"

\* C17: an exception raised by a dispatched task does not escape
\* execute_parallel: the call returns, only after every dispatched task
\* has settled, and reports the exception as that task's error entry,
\* the tasks that returned as result entries.
C17_TaskErrorsCaptured ==
    /\ parPc = "returned" =>
          /\ Len(parResults) = Len(parTasks)
          /\ \A i \in 1..Len(parTasks) :
                /\ callPc[i] \in {"returned", "raised"}
                /\ callPc[i] = "raised" =>
                      parResults[i] = [kind |-> "error", exc |-> callExc[i]]
                /\ callPc[i] = "returned" => parResults[i].kind = "result"
    /\ parPc = "raised" => \A c \in Calls : callPc[c] = "idle"

\* C17 witness: of two gathered tasks the first returned after the second
\* had raised, and the call returned both entries.
C17_Witness ==
    /\ parPc = "returned"
    /\ Len(parTasks) = 2
    /\ callPc[1] = "returned"
    /\ callPc[2] = "raised"
    /\ parResults[1].kind = "result"
    /\ parResults[2].kind = "error"

\* ---------------------------------------------------------------------
\* RateLimiter claims
\* ---------------------------------------------------------------------

\* C20: the instants at which one limiter lets two different calls
\* through are at least `interval` apart, whatever the interleaving of its
\* callers; hence the j-th permitted call comes at least (j - i) * interval
\* after the i-th.
C20_PermitsSpaced ==
    \A i, j \in 1..Len(permitted) :
        i < j => permitted[j].at - permitted[i].at >= (j - i) * interval

\* C20 witness: a second call was let through after sleeping, exactly
\* one interval after the first, while another caller waits for the lock.
C20_Witness ==
    /\ Len(permitted) >= 2
    /\ permitted[2].slept
    /\ permitted[2].at - permitted[1].at = interval
    /\ rlWaiters # <<>>

\* C21 (as claimed): the limiter's lock is released before the wrapped
\* operation runs, so it is never held while some caller's wrapped
\* operation is in progress.
C21_LockFreeDuringCall ==
    \A c \in RlCallers : rlPc[c] = "calling" => ~rlLocked

\* C22 (as claimed): a call made through the limiter is transparent: the
\* caller gets the value the wrapped operation returns, or the exception
\* it raises.
C22_Transparent ==
    rlLast.arg # "none" => rlLast.got = rlLast.op

\* ---------------------------------------------------------------------
\* ErrorHandler claims
\* ---------------------------------------------------------------------

\* C23 (as claimed): after n handle_error calls with no
\* clear_error_history in between, the error history holds exactly n
\* entries, however close in time the calls were.
C23_OneEntryPerError ==
    Cardinality(DOMAIN error_log) = ehCalls

\* C24 (as claimed): handle_error never raises; when emitting the log
\* record failed, the ErrorContext is still returned to the caller.
C24_HandleErrorNeverRaises ==
    ehLast.logFailed => ehLast.outcome = "returned"

\* ---------------------------------------------------------------------
\* DomainAgent claims, continued
\* ---------------------------------------------------------------------

\* C25: report_status changes neither status nor current_tasks, and while
\* nothing else happens to the agent every call, the first and a repeated
\* one, returns the agent's status and current_tasks as they are.
C25_ReportIdempotent ==
    lastReport # NoReport =>
        /\ lastReport.snapshot.status = status
        /\ lastReport.snapshot.current_tasks = current_tasks

\* C25 witness: a busy agent with a task in flight was asked twice.
C25_Witness ==
    /\ lastReport.call = "again"
    /\ lastReport.snapshot.status = BUSY
    /\ lastReport.snapshot.current_tasks # <<>>
    /\ InFlight # {}

\* C26 (as claimed): the agent's status becomes SHUTDOWN only from a
\* state that is not BUSY and has no task in current_tasks.
C26_ShutdownOnlyWhenIdle ==
    [][(status # SHUTDOWN /\ status' = SHUTDOWN) =>
          (status # BUSY /\ current_tasks = <<>>)]_vars

\* The tasks the running execute_parallel call has handed to gather that
\* have not settled yet.
ParInFlight ==
    IF parPc = "gathering"
    THEN {c \in 1..Len(parTasks) : callPc[c] \notin {"returned", "raised"}}
    ELSE {}

\* C27 (as claimed): the tasks in flight that one orchestrator dispatched
\* never number more than its config.max_concurrent_tasks, however many
\* plans are supplied.
C27_OrchestratorCeiling ==
    Cardinality(ParInFlight) <= orch_max_concurrent_tasks

\* C28 (as claimed): when one of two tasks in flight on an agent has
\* raised, leaving status ERROR, the successful completion of its sibling
\* sets the status back to READY.
C28_SiblingRevertsError ==
    [][\A c \in Calls :
          (/\ callPc[c] = "running" /\ callPc'[c] = "returned"
           /\ status = ERROR
           /\ \E d \in Calls \ {c} : callPc[d] = "raised" /\ implExc[d] # NoError)
          => status' = READY]_vars

\* C29 (as claimed): an accepted task whose body has not resolved within
\* the timeout is not awaited any longer: no caller is still waiting, and
\* no task id is still in current_tasks, past timeout_seconds.
C29_TimeoutBoundsWait ==
    \A c \in Calls :
        callPc[c] = "running" => callAge[c] <= TimeoutTicks

\* C30: provided initialize() is not called while a task is in flight, at
\* most one task body of an agent is executing at any time, whatever
\* max_concurrent_tasks is: a call that enters execute_task while another
\* task is running is rejected with the 'not ready' error, its body not run.
C30_OneBodyAtATime ==
    /\ [](Cardinality(InFlight) <= 1)
    /\ [][\A c \in Calls :
            (Entered(c) /\ InFlight # {}) =>
                /\ callPc'[c] = "raised"
                /\ callExc'[c] = NotReadyError
                /\ ~implRan'[c]]_vars

\* C30 witness: an agent with room for a second task, one task running,
\* turned a second call away as not ready.
C30_Witness ==
    /\ status = BUSY
    /\ Len(current_tasks) < max_concurrent_tasks
    /\ \E c, d \in Calls :
          /\ callPc[c] = "running"
          /\ callPc[d] = "raised" /\ callExc[d] = NotReadyError /\ ~implRan[d]

====
